---- MODULE Spec2Model ----
(***************************************************************************)
(* Model of the interactive graph editor of cg-coord-system: the shared    *)
(* application state (state.js), the canvas / sidebar event handlers       *)
(* (events.js), the commands of ui.js, the coordinate conversions          *)
(* (coords.js) and the resize handler and bootstrap of main.js.            *)
(*                                                                         *)
(* JavaScript numbers are modelled as exact rationals <<n, d>> (d > 0,     *)
(* lowest terms): every arithmetic expression of the source is computed    *)
(* as written, without IEEE rounding.  Vertex and edge ids are integers,   *)
(* NoId stands for null; Null stands for a null number or point.           *)
(***************************************************************************)
EXTENDS Integers, Sequences, FiniteSets, TLC

VARIABLES
  state,     \* the shared application state object of state.js
  canvas,    \* <<width, height>> of the canvas element
  pc,        \* "boot" before main.js has run, "run" afterwards
  status     \* the status message, _msgTimer of ui.js and the timers set

vars == <<state, canvas, pc, status>>

----------------------------------------------------------------------------
(* Bounds of the model.                                                    *)

\* Spec: a step is offered only while nextVid stays <= MaxVid
MaxVid == 3
\* Spec: a step is offered only while nextEid stays <= MaxEid
MaxEid == 2
\* SpecView: a step is offered only while nextVid stays <= MaxVidView
MaxVidView == 1
\* SpecView: a step is offered only while zoom stays within MaxZoomSteps
\* factors of 1.15 of the initial zoom or of one of the two clamps
MaxZoomSteps == 1
\* SpecView: a step is offered only while |panX - 20| and |panY - 20| stay
\* <= MaxPan
MaxPan == 10
\* SpecView: a step is offered only while the denominators of panX and
\* panY stay <= MaxDen
MaxDen == 50
\* SpecPan: a step is offered only while nextVid stays <= MaxVidPan
MaxVidPan == 2
\* SpecPan: a step is offered only while nextEid stays <= MaxEidPan
MaxEidPan == 1
\* SpecHit: a step is offered only while nextVid stays <= MaxVidHit
MaxVidHit == 2
\* SpecCoords: a step is offered only while nextVid stays <= MaxVidCoords
MaxVidCoords == 2
\* SpecMsg: a step is offered only while nextVid stays <= MaxVidMsg
MaxVidMsg == 2
\* SpecMsg: a step is offered only while nextEid stays <= MaxEidMsg
MaxEidMsg == 1
\* SpecMsg: a message is shown only while at most MaxTimers timers were set
MaxTimers == 4
\* SpecDraw: a step is offered only while nextVid stays <= MaxVidDraw
MaxVidDraw == 2
\* SpecDraw: a step is offered only while nextEid stays <= MaxEidDraw
MaxEidDraw == 1

Modes == {"select", "vertex", "edge"}

----------------------------------------------------------------------------
(* Numbers.                                                                *)

NoId == -1
Null == <<>>

Abs(n) == IF n < 0 THEN -n ELSE n

RECURSIVE Gcd(_, _)
Gcd(a, b) == IF b = 0 THEN a ELSE Gcd(b, a % b)

Rat(n, d) ==
  LET s == IF d < 0 THEN -1 ELSE 1
      g == Gcd(Abs(n), Abs(d))
  IN  <<(s * n) \div g, (s * d) \div g>>

Q(n) == <<n, 1>>
Neg(a) == <<0 - a[1], a[2]>>
\* the sum over the least common denominator
Add(a, b) ==
  IF a[2] = 1 /\ b[2] = 1 THEN <<a[1] + b[1], 1>>
  ELSE LET g == Gcd(a[2], b[2])
       IN  Rat(a[1] * (b[2] \div g) + b[1] * (a[2] \div g),
               a[2] * (b[2] \div g))
Sub(a, b) == Add(a, Neg(b))
\* the product, cancelled crosswise before it is multiplied out
Mul(a, b) ==
  IF a[2] = 1 /\ b[2] = 1 THEN <<a[1] * b[1], 1>>
  ELSE LET g1 == Gcd(Abs(a[1]), b[2])
           g2 == Gcd(Abs(b[1]), a[2])
       IN  <<(a[1] \div g1) * (b[1] \div g2),
             (a[2] \div g2) * (b[2] \div g1)>>
\* the quotient; the divisor is not zero
Div(a, b) ==
  IF b = <<1, 1>> THEN a
  ELSE Mul(a, IF b[1] < 0 THEN <<0 - b[2], 0 - b[1]>> ELSE <<b[2], b[1]>>)
\* a <= b: by the integer parts, and where they are equal by the fractional
\* parts over the least common denominator
Leq(a, b) ==
  IF a[2] = b[2] THEN a[1] <= b[1]
  ELSE LET fa == a[1] \div a[2]
           fb == b[1] \div b[2]
           g == Gcd(a[2], b[2])
       IN  IF fa # fb THEN fa < fb
           ELSE (a[1] % a[2]) * (b[2] \div g) <= (b[1] % b[2]) * (a[2] \div g)
Max(a, b) == IF Leq(a, b) THEN b ELSE a
Min(a, b) == IF Leq(a, b) THEN a ELSE b
\* Math.round: the nearest integer, halves towards +infinity.
Round(a) == (2 * a[1] + a[2]) \div (2 * a[2])

RECURSIVE Pow(_, _)
Pow(a, k) == IF k = 0 THEN Q(1)
             ELSE IF k > 0 THEN Mul(a, Pow(a, k - 1))
             ELSE Div(Pow(a, k + 1), a)

----------------------------------------------------------------------------
(* state.js                                                                *)

V_RADIUS == 8
HIT_MARGIN == 4
ZOOM_MIN == Rat(5, 100)
ZOOM_MAX == Q(30)
ZOOM_FACTOR == Rat(115, 100)

InitState ==
  [coordSystem |-> "cg", mathOx |-> Null, mathOy |-> Null,
   mode |-> "vertex",
   vertices |-> <<>>, edges |-> <<>>, nextVid |-> 0, nextEid |-> 0,
   edgePending |-> NoId, selVertex |-> NoId, dragVertex |-> NoId,
   lastMouse |-> Null,
   zoom |-> Q(1), panX |-> Q(20), panY |-> Q(20),
   isPanning |-> FALSE, panStartX |-> Q(0), panStartY |-> Q(0),
   panStartPanX |-> Q(0), panStartPanY |-> Q(0)]

----------------------------------------------------------------------------
(* coords.js                                                               *)

origin(s) ==
  IF s.coordSystem = "cg" THEN <<Q(0), Q(0)>> ELSE <<s.mathOx, s.mathOy>>

\* worldToUser with the y axis of the math system pointing down
worldToUserNoFlip(s, wx, wy) ==
  IF s.coordSystem = "cg" THEN <<Round(wx), Round(wy)>>
  ELSE LET o == origin(s)
       IN  <<Round(Sub(wx, o[1])), Round(Sub(wy, o[2]))>>

\* the displayed coordinates: a pair of integers
worldToUser(s, wx, wy) ==
  IF s.coordSystem = "cg" THEN <<Round(wx), Round(wy)>>
  ELSE LET o == origin(s)
       IN  <<Round(Sub(wx, o[1])), Round(Sub(o[2], wy))>>

\* userToWorld with the y axis of the math system pointing down
userToWorldNoFlip(s, ux, uy) ==
  IF s.coordSystem = "cg" THEN <<ux, uy>>
  ELSE LET o == origin(s)
       IN  <<Add(o[1], ux), Add(o[2], uy)>>

userToWorld(s, ux, uy) ==
  IF s.coordSystem = "cg" THEN <<ux, uy>>
  ELSE LET o == origin(s)
       IN  <<Add(o[1], ux), Sub(o[2], uy)>>

screenToWorld(s, sx, sy) ==
  <<Div(Sub(sx, s.panX), s.zoom), Div(Sub(sy, s.panY), s.zoom)>>

----------------------------------------------------------------------------
(* ui.js                                                                   *)

VertexIds(s) == {s.vertices[i].id : i \in DOMAIN s.vertices}
EdgeIds(s) == {s.edges[i].id : i \in DOMAIN s.edges}

\* dx * dx + dy * dy <= hitR * hitR
\* the hit test with the boundary of the hit area left out
HitStrict(s, v, wx, wy) ==
  LET hitR == Div(Q(V_RADIUS + HIT_MARGIN), s.zoom)
      dx == Sub(v.cx, wx)
      dy == Sub(v.cy, wy)
  IN  ~ Leq(Mul(hitR, hitR), Add(Mul(dx, dx), Mul(dy, dy)))

Hit(s, v, wx, wy) ==
  LET hitR == Div(Q(V_RADIUS + HIT_MARGIN), s.zoom)
      dx == Sub(v.cx, wx)
      dy == Sub(v.cy, wy)
  IN  Leq(Add(Mul(dx, dx), Mul(dy, dy)), Mul(hitR, hitR))

\* the id of the first vertex, in list order, whose hit area holds the
\* point; NoId for null
vertexAt(s, wx, wy) ==
  LET hits == {i \in DOMAIN s.vertices : Hit(s, s.vertices[i], wx, wy)}
  IN  IF hits = {} THEN NoId
      ELSE s.vertices[CHOOSE i \in hits : \A j \in hits : i <= j].id

\* setMode without the reset of the selection (line 34)
setModeKeepsSelection(s, m) ==
  [s EXCEPT !.mode = m, !.edgePending = NoId]

setMode(s, m) ==
  [s EXCEPT !.mode = m, !.edgePending = NoId, !.selVertex = NoId]

\* setCoordSystem that also rewrites the stored positions, mirrored about the
\* math origin
setCoordSystemConverts(s, sys) ==
  [s EXCEPT !.coordSystem = sys,
            !.vertices = [i \in DOMAIN s.vertices |->
                            [s.vertices[i] EXCEPT
                               !.cy = IF sys = s.coordSystem \/ s.mathOy = Null
                                      THEN @
                                      ELSE Sub(Mul(Q(2), s.mathOy), @)]]]

setCoordSystem(s, sys) ==
  [s EXCEPT !.coordSystem = sys]

\* addVertex that puts the new vertex at the head of the list, where line 82
\* pushes it at the end
addVertexAtHead(s, wx, wy) ==
  [s EXCEPT !.vertices = << [id |-> s.nextVid, cx |-> wx, cy |-> wy] >> \o @,
            !.nextVid = @ + 1]

addVertex(s, wx, wy) ==
  [s EXCEPT !.vertices = Append(@, [id |-> s.nextVid, cx |-> wx, cy |-> wy]),
            !.nextVid = @ + 1]

addVertexByCoords(s, ux, uy) ==
  LET p == userToWorld(s, ux, uy)
  IN  addVertex(s, p[1], p[2])

\* deleteVertex without the filter of state.edges (line 106)
deleteVertexNoCascade(s, id) ==
  [s EXCEPT !.vertices = SelectSeq(@, LAMBDA v : v.id # id),
            !.selVertex = IF @ = id THEN NoId ELSE @,
            !.edgePending = IF @ = id THEN NoId ELSE @]

\* deleteVertex with the selection and the pending source cleared whatever
\* they refer to (lines 107-108 without their conditions)
deleteVertexClearsAll(s, id) ==
  [s EXCEPT !.vertices = SelectSeq(@, LAMBDA v : v.id # id),
            !.edges = SelectSeq(@, LAMBDA e : e.v1 # id /\ e.v2 # id),
            !.selVertex = NoId,
            !.edgePending = NoId]

\* deleteVertex that gives the id of the last vertex created back to the
\* counter
deleteVertexReusesId(s, id) ==
  [s EXCEPT !.vertices = SelectSeq(@, LAMBDA v : v.id # id),
            !.edges = SelectSeq(@, LAMBDA e : e.v1 # id /\ e.v2 # id),
            !.selVertex = IF @ = id THEN NoId ELSE @,
            !.edgePending = IF @ = id THEN NoId ELSE @,
            !.nextVid = IF id = @ - 1 THEN id ELSE @]

\* deleteVertex without lines 107-108: the selection and the pending source
\* of an edge keep the id of the vertex removed
deleteVertexKeepsReferences(s, id) ==
  [s EXCEPT !.vertices = SelectSeq(@, LAMBDA v : v.id # id),
            !.edges = SelectSeq(@, LAMBDA e : e.v1 # id /\ e.v2 # id)]

deleteVertex(s, id) ==
  [s EXCEPT !.vertices = SelectSeq(@, LAMBDA v : v.id # id),
            !.edges = SelectSeq(@, LAMBDA e : e.v1 # id /\ e.v2 # id),
            !.selVertex = IF @ = id THEN NoId ELSE @,
            !.edgePending = IF @ = id THEN NoId ELSE @]

selectFromList(s, id) ==
  [s EXCEPT !.selVertex = id]

alreadyExists(s, a, b) ==
  \E i \in DOMAIN s.edges :
     \/ s.edges[i].v1 = a /\ s.edges[i].v2 = b
     \/ s.edges[i].v1 = b /\ s.edges[i].v2 = a

\* handleEdgeClick without the test for an existing edge (lines 150-157)
handleEdgeClickNoDuplicateTest(s, wx, wy) ==
  LET v == vertexAt(s, wx, wy)
  IN  IF v = NoId THEN s
      ELSE IF s.edgePending = NoId THEN [s EXCEPT !.edgePending = v]
      ELSE IF s.edgePending = v THEN [s EXCEPT !.edgePending = NoId]
      ELSE [s EXCEPT !.edges = Append(@, [id |-> s.nextEid,
                                          v1 |-> s.edgePending,
                                          v2 |-> v]),
                     !.nextEid = @ + 1,
                     !.edgePending = NoId]

\* handleEdgeClick without the branch for a second click on the pending
\* vertex (lines 145-147)
handleEdgeClickNoCancel(s, wx, wy) ==
  LET v == vertexAt(s, wx, wy)
  IN  IF v = NoId THEN s
      ELSE IF s.edgePending = NoId THEN [s EXCEPT !.edgePending = v]
      ELSE IF alreadyExists(s, s.edgePending, v)
           THEN [s EXCEPT !.edgePending = NoId]
           ELSE [s EXCEPT !.edges = Append(@, [id |-> s.nextEid,
                                               v1 |-> s.edgePending,
                                               v2 |-> v]),
                          !.nextEid = @ + 1,
                          !.edgePending = NoId]

\* handleEdgeClick with the pending source kept when the edge exists
\* (line 163 moved into the branch that creates the edge)
handleEdgeClickKeepsPending(s, wx, wy) ==
  LET v == vertexAt(s, wx, wy)
  IN  IF v = NoId THEN s
      ELSE IF s.edgePending = NoId THEN [s EXCEPT !.edgePending = v]
      ELSE IF s.edgePending = v THEN [s EXCEPT !.edgePending = NoId]
      ELSE IF alreadyExists(s, s.edgePending, v)
           THEN s
           ELSE [s EXCEPT !.edges = Append(@, [id |-> s.nextEid,
                                               v1 |-> s.edgePending,
                                               v2 |-> v]),
                          !.nextEid = @ + 1,
                          !.edgePending = NoId]

\* handleEdgeClick with the pending source cleared by a click on no vertex
handleEdgeClickClearsOnMiss(s, wx, wy) ==
  LET v == vertexAt(s, wx, wy)
  IN  IF v = NoId THEN [s EXCEPT !.edgePending = NoId]
      ELSE IF s.edgePending = NoId THEN [s EXCEPT !.edgePending = v]
      ELSE IF s.edgePending = v THEN [s EXCEPT !.edgePending = NoId]
      ELSE IF alreadyExists(s, s.edgePending, v)
           THEN [s EXCEPT !.edgePending = NoId]
           ELSE [s EXCEPT !.edges = Append(@, [id |-> s.nextEid,
                                               v1 |-> s.edgePending,
                                               v2 |-> v]),
                          !.nextEid = @ + 1,
                          !.edgePending = NoId]

handleEdgeClick(s, wx, wy) ==
  LET v == vertexAt(s, wx, wy)
  IN  IF v = NoId THEN s
      ELSE IF s.edgePending = NoId THEN [s EXCEPT !.edgePending = v]
      ELSE IF s.edgePending = v THEN [s EXCEPT !.edgePending = NoId]
      ELSE IF alreadyExists(s, s.edgePending, v)
           THEN [s EXCEPT !.edgePending = NoId]
           ELSE [s EXCEPT !.edges = Append(@, [id |-> s.nextEid,
                                               v1 |-> s.edgePending,
                                               v2 |-> v]),
                          !.nextEid = @ + 1,
                          !.edgePending = NoId]

\* The status bar: text is the message shown (Null for the empty text),
\* msgTimer is _msgTimer (NoId for null, else the id of the timer it last
\* got from setTimeout), pending holds the timers that are set and have
\* neither fired nor been cancelled, each with its id and the message it was
\* set for, and nextTimer is the id setTimeout returns next.
InitStatus ==
  [text |-> Null, msgTimer |-> NoId, pending |-> {}, nextTimer |-> 0]

\* setMsg without the clearTimeout of line 249
setMsgNoCancel(st, msg) ==
  IF msg # Null
  THEN [st EXCEPT !.text = msg,
                  !.msgTimer = st.nextTimer,
                  !.pending = @ \cup {[id |-> st.nextTimer, msg |-> msg]},
                  !.nextTimer = @ + 1]
  ELSE [st EXCEPT !.text = msg]

\* setMsg(msg): clearTimeout removes the timer _msgTimer names, if it is
\* still pending
setMsg(st, msg) ==
  LET cleared == {t \in st.pending : t.id # st.msgTimer}
  IN  IF msg # Null
      THEN [st EXCEPT !.text = msg,
                      !.msgTimer = st.nextTimer,
                      !.pending = cleared \cup
                                    {[id |-> st.nextTimer, msg |-> msg]},
                      !.nextTimer = @ + 1]
      ELSE [st EXCEPT !.text = msg, !.pending = cleared]

\* the callback of the timer t runs: the text is emptied (line 251)
msgTimeout(st, t) ==
  [st EXCEPT !.text = Null, !.pending = @ \ {t}]

\* deleteEdge by splice(findIndex(...), 1): with no match the index is -1
\* and the last edge goes
deleteEdgeSplice(s, id) ==
  IF \E i \in DOMAIN s.edges : s.edges[i].id = id
  THEN [s EXCEPT !.edges = SelectSeq(@, LAMBDA e : e.id # id)]
  ELSE [s EXCEPT !.edges = SubSeq(@, 1, Len(@) - 1)]

deleteEdge(s, id) ==
  [s EXCEPT !.edges = SelectSeq(@, LAMBDA e : e.id # id)]

\* clearAll without the reset of the two counters (lines 207-208)
clearAllKeepsCounters(s) ==
  [s EXCEPT !.vertices = <<>>, !.edges = <<>>,
            !.selVertex = NoId, !.edgePending = NoId, !.dragVertex = NoId]

\* clearAll that also restores the initial mode and view transform
clearAllResetsView(s) ==
  [s EXCEPT !.vertices = <<>>, !.edges = <<>>,
            !.nextVid = 0, !.nextEid = 0,
            !.selVertex = NoId, !.edgePending = NoId, !.dragVertex = NoId,
            !.mode = "vertex",
            !.zoom = Q(1), !.panX = Q(20), !.panY = Q(20)]

clearAll(s) ==
  [s EXCEPT !.vertices = <<>>, !.edges = <<>>,
            !.nextVid = 0, !.nextEid = 0,
            !.selVertex = NoId, !.edgePending = NoId, !.dragVertex = NoId]

resetView(s) ==
  [s EXCEPT !.zoom = Q(1), !.panX = Q(20), !.panY = Q(20)]

----------------------------------------------------------------------------
(* events.js: the canvas listeners.  Screen coordinates are numbers.       *)

\* the mousemove listener with a drag that moves every vertex of the list
onMouseMoveDragsAll(s, sx, sy) ==
  IF s.isPanning
  THEN [s EXCEPT !.panX = Add(s.panStartPanX, Sub(sx, s.panStartX)),
                 !.panY = Add(s.panStartPanY, Sub(sy, s.panStartY))]
  ELSE LET w == screenToWorld(s, sx, sy)
           s1 == [s EXCEPT !.lastMouse = w]
       IN  IF s1.dragVertex # NoId
           THEN [s1 EXCEPT !.vertices =
                   [i \in DOMAIN s1.vertices |->
                      [s1.vertices[i] EXCEPT !.cx = w[1], !.cy = w[2]]]]
           ELSE s1

onMouseMove(s, sx, sy) ==
  IF s.isPanning
  THEN [s EXCEPT !.panX = Add(s.panStartPanX, Sub(sx, s.panStartX)),
                 !.panY = Add(s.panStartPanY, Sub(sy, s.panStartY))]
  ELSE LET w == screenToWorld(s, sx, sy)
           s1 == [s EXCEPT !.lastMouse = w]
       IN  IF s1.dragVertex # NoId
           THEN \* the dragged object is the list entry with that id, if the
                \* vertex is still in the list
                [s1 EXCEPT !.vertices =
                   [i \in DOMAIN s1.vertices |->
                      IF s1.vertices[i].id = s1.dragVertex
                      THEN [s1.vertices[i] EXCEPT !.cx = w[1], !.cy = w[2]]
                      ELSE s1.vertices[i]]]
           ELSE s1

onMouseDown(s, button, sx, sy) ==
  IF button = 1
  THEN [s EXCEPT !.isPanning = TRUE,
                 !.panStartX = sx, !.panStartY = sy,
                 !.panStartPanX = s.panX, !.panStartPanY = s.panY]
  ELSE IF button # 0 THEN s
  ELSE LET w == screenToWorld(s, sx, sy)
       IN  IF s.mode = "select"
           THEN LET v == vertexAt(s, w[1], w[2])
                IN  IF v # NoId
                    THEN [s EXCEPT !.dragVertex = v, !.selVertex = v]
                    ELSE [s EXCEPT !.selVertex = NoId]
           ELSE s

onMouseUp(s, button) ==
  IF button = 1 THEN [s EXCEPT !.isPanning = FALSE]
  ELSE IF s.dragVertex # NoId THEN [s EXCEPT !.dragVertex = NoId]
  ELSE s

\* the click listener with no vertex added where the hit test finds one
onClickSkipsOccupied(s, sx, sy) ==
  IF s.dragVertex # NoId \/ s.isPanning THEN s
  ELSE LET w == screenToWorld(s, sx, sy)
       IN  CASE s.mode = "vertex" ->
                  IF vertexAt(s, w[1], w[2]) # NoId THEN s
                  ELSE addVertex(s, w[1], w[2])
             [] s.mode = "edge"   -> handleEdgeClick(s, w[1], w[2])
             [] s.mode = "select" ->
                  [s EXCEPT !.selVertex = vertexAt(s, w[1], w[2])]

\* the click listener with the selection kept where the hit test finds no
\* vertex
onClickKeepsSelection(s, sx, sy) ==
  IF s.dragVertex # NoId \/ s.isPanning THEN s
  ELSE LET w == screenToWorld(s, sx, sy)
       IN  CASE s.mode = "vertex" -> addVertex(s, w[1], w[2])
             [] s.mode = "edge"   -> handleEdgeClick(s, w[1], w[2])
             [] s.mode = "select" ->
                  IF vertexAt(s, w[1], w[2]) = NoId THEN s
                  ELSE [s EXCEPT !.selVertex = vertexAt(s, w[1], w[2])]

onClick(s, sx, sy) ==
  IF s.dragVertex # NoId \/ s.isPanning THEN s
  ELSE LET w == screenToWorld(s, sx, sy)
       IN  CASE s.mode = "vertex" -> addVertex(s, w[1], w[2])
             [] s.mode = "edge"   -> handleEdgeClick(s, w[1], w[2])
             [] s.mode = "select" ->
                  [s EXCEPT !.selVertex = vertexAt(s, w[1], w[2])]

onMouseLeave(s) ==
  [s EXCEPT !.lastMouse = Null, !.isPanning = FALSE]

\* the wheel listener without the clamp of line 226
onWheelNoClamp(s, up, sx, sy) ==
  LET factor == IF up THEN ZOOM_FACTOR ELSE Div(Q(1), ZOOM_FACTOR)
      newZ == Mul(s.zoom, factor)
  IN  [s EXCEPT !.panX = Sub(sx, Mul(Sub(sx, s.panX), Div(newZ, s.zoom))),
                !.panY = Sub(sy, Mul(Sub(sy, s.panY), Div(newZ, s.zoom))),
                !.zoom = newZ]

\* the wheel listener with the pan scaled by factor, not by newZ / zoom
onWheelPanByFactor(s, up, sx, sy) ==
  LET factor == IF up THEN ZOOM_FACTOR ELSE Div(Q(1), ZOOM_FACTOR)
      newZ == Max(ZOOM_MIN, Min(ZOOM_MAX, Mul(s.zoom, factor)))
  IN  [s EXCEPT !.panX = Sub(sx, Mul(Sub(sx, s.panX), factor)),
                !.panY = Sub(sy, Mul(Sub(sy, s.panY), factor)),
                !.zoom = newZ]

\* up: e.deltaY < 0
onWheel(s, up, sx, sy) ==
  LET factor == IF up THEN ZOOM_FACTOR ELSE Div(Q(1), ZOOM_FACTOR)
      newZ == Max(ZOOM_MIN, Min(ZOOM_MAX, Mul(s.zoom, factor)))
  IN  [s EXCEPT !.panX = Sub(sx, Mul(Sub(sx, s.panX), Div(newZ, s.zoom))),
                !.panY = Sub(sy, Mul(Sub(sy, s.panY), Div(newZ, s.zoom))),
                !.zoom = newZ]

----------------------------------------------------------------------------
(* main.js                                                                 *)

\* resize without the test of line 26
resizeAlwaysSetsOrigin(s, w, h) ==
  [s EXCEPT !.mathOx = Div(Q(w), Q(2)), !.mathOy = Div(Q(h), Q(2))]

\* the state after resize() with the wrapper at w x h
resize(s, w, h) ==
  IF s.mathOx = Null
  THEN [s EXCEPT !.mathOx = Div(Q(w), Q(2)), !.mathOy = Div(Q(h), Q(2))]
  ELSE s

bootstrap(s, w, h) ==
  resize(setMode(setCoordSystem(s, "cg"), "vertex"), w, h)

----------------------------------------------------------------------------
(* The program as a state machine: one action per listener.  An action is  *)
(* offered the inputs of a profile P: the screen points of each kind of    *)
(* pointer event, whether the pointer hovers, the canvas sizes, the         *)
(* coordinate systems, the typed user coordinates, and the bounds on the   *)
(* counters and on the view transform.                                     *)

ZoomLevels(k) ==
  {Mul(a, Pow(ZOOM_FACTOR, j)) :
     a \in {Q(1), ZOOM_MIN, ZOOM_MAX}, j \in (0 - k)..k}

PanOk(p, m, d) == Leq(Q(20 - m), p) /\ Leq(p, Q(20 + m)) /\ p[2] <= d

\* the bounds of the profile, as a guard on the state a step leads to
Within(P, n) ==
  /\ n.nextVid <= P.maxVid
  /\ n.nextEid <= P.maxEid
  /\ n.zoom \in P.zoomLevels
  /\ PanOk(n.panX, P.maxPan, P.maxDen)
  /\ PanOk(n.panY, P.maxPan, P.maxDen)

\* a listener runs and leaves the state n
Handle(P, n) ==
  /\ pc = "run"
  /\ Within(P, n)
  /\ state' = n

Init ==
  /\ state = InitState
  /\ canvas = <<300, 150>>
  /\ pc = "boot"
  /\ status = InitStatus

\* main.js runs once, before any event is delivered
Boot(P) ==
  \E c \in P.bootSizes :
    /\ pc = "boot"
    /\ state' = bootstrap(state, c[1], c[2])
    /\ status' = setMsg(status, Null)
    /\ canvas' = c
    /\ pc' = "run"

Resize(P) ==
  \E c \in P.sizes :
    /\ Handle(P, resize(state, c[1], c[2]))
    /\ canvas' = c
    /\ UNCHANGED <<pc, status>>

\* the pointer moves over the canvas; where the profile has no hovering, it
\* does so only while a button is held (a pan or a drag is in progress)
MouseMove(P) ==
  \E p \in P.movePts :
    /\ P.hover \/ state.isPanning \/ state.dragVertex # NoId
    /\ Handle(P, onMouseMove(state, Q(p[1]), Q(p[2])))
    /\ UNCHANGED <<canvas, pc, status>>

MouseDown(P) ==
  \E b \in P.buttons, p \in P.downPts :
    /\ Handle(P, onMouseDown(state, b, Q(p[1]), Q(p[2])))
    /\ UNCHANGED <<canvas, pc, status>>

\* the state after a click of the left button at the screen point p: the
\* mouseup listener runs, then the click listener
clickAt(s, p) == onClick(onMouseUp(s, 0), Q(p[1]), Q(p[2]))

\* a button is released over the canvas and no click follows: the button
\* is not the left one, or it was pressed outside the canvas
MouseUp(P) ==
  \E b \in P.buttons :
    /\ Handle(P, onMouseUp(state, b))
    /\ UNCHANGED <<canvas, pc, status>>

\* the left button is released over the canvas after a press on it: the
\* browser dispatches mouseup and then click, with no event in between
Click(P) ==
  \E p \in P.clickPts :
    /\ Handle(P, clickAt(state, p))
    /\ UNCHANGED <<canvas, pc, status>>

MouseLeave(P) ==
  /\ Handle(P, onMouseLeave(state))
  /\ UNCHANGED <<canvas, pc, status>>

Wheel(P) ==
  \E up \in BOOLEAN, p \in P.wheelPts :
    /\ Handle(P, onWheel(state, up, Q(p[1]), Q(p[2])))
    /\ UNCHANGED <<canvas, pc, status>>

\* Ctrl+0 and the reset-view button
ResetView(P) ==
  /\ Handle(P, resetView(state))
  /\ UNCHANGED <<canvas, pc, status>>

SetCoordSystem(P) ==
  \E sys \in P.systems :
    /\ Handle(P, setCoordSystem(state, sys))
    /\ UNCHANGED <<canvas, pc, status>>

SetMode(P) ==
  \E m \in Modes :
    /\ Handle(P, setMode(state, m))
    /\ UNCHANGED <<canvas, pc, status>>

AddVertexByCoords(P) ==
  \E u \in P.userPts :
    /\ Handle(P, addVertexByCoords(state, Q(u[1]), Q(u[2])))
    /\ UNCHANGED <<canvas, pc, status>>

ClearAll(P) ==
  /\ Handle(P, clearAll(state))
  /\ UNCHANGED <<canvas, pc, status>>

\* the delete button of a row of the vertex list
ListDeleteVertex(P) ==
  \E id \in VertexIds(state) :
    /\ Handle(P, deleteVertex(state, id))
    /\ UNCHANGED <<canvas, pc, status>>

\* a row of the vertex list
ListSelect(P) ==
  \E id \in VertexIds(state) :
    /\ Handle(P, selectFromList(state, id))
    /\ UNCHANGED <<canvas, pc, status>>

\* the delete button of a row of the edge list
ListDeleteEdge(P) ==
  \E id \in EdgeIds(state) :
    /\ Handle(P, deleteEdge(state, id))
    /\ UNCHANGED <<canvas, pc, status>>

----------------------------------------------------------------------------
(* Spec: the editing of the graph, from the initial state, under the       *)
(* initial view transform (no wheel event, no middle button).              *)

GraphProfile ==
  [clickPts |-> {<<20, 20>>, <<30, 30>>},
   downPts |-> {<<20, 20>>},
   movePts |-> {<<30, 30>>},
   wheelPts |-> {},
   buttons |-> {0},
   hover |-> TRUE,
   bootSizes |-> {<<100, 100>>},
   sizes |-> {<<100, 100>>},
   systems |-> {"cg"},
   userPts |-> {<<0, 0>>},
   maxVid |-> MaxVid, maxEid |-> MaxEid,
   zoomLevels |-> {Q(1)}, maxPan |-> 0, maxDen |-> 1]

Next ==
  \/ Boot(GraphProfile)
  \/ Resize(GraphProfile)
  \/ MouseMove(GraphProfile)
  \/ MouseDown(GraphProfile)
  \/ MouseUp(GraphProfile)
  \/ Click(GraphProfile)
  \/ MouseLeave(GraphProfile)
  \/ ResetView(GraphProfile)
  \/ SetCoordSystem(GraphProfile)
  \/ SetMode(GraphProfile)
  \/ AddVertexByCoords(GraphProfile)
  \/ ClearAll(GraphProfile)
  \/ ListDeleteVertex(GraphProfile)
  \/ ListSelect(GraphProfile)
  \/ ListDeleteEdge(GraphProfile)

Spec == Init /\ [][Next]_vars

----------------------------------------------------------------------------
(* SpecView: the view transform (wheel events, pans with the middle        *)
(* button), the canvas size, the coordinate system and the mode, with the  *)
(* vertices typed in as coordinates; the pointer moves over the canvas     *)
(* only during a pan.  Besides the initial state it starts from the states *)
(* that 25 wheel events towards the viewer, or 22 away from it, at the     *)
(* screen point (20, 20) lead to after the bootstrap: 1.15^25 > 30 and     *)
(* 1.15^-22 < 0.05, so the zoom is at a clamp, and the pan is still        *)
(* (20, 20), because the cursor is on it.                                  *)

ViewProfile ==
  [clickPts |-> {},
   downPts |-> {<<20, 20>>},
   movePts |-> {<<26, 28>>},
   wheelPts |-> {<<30, 40>>},
   buttons |-> {1},
   hover |-> FALSE,
   bootSizes |-> {<<100, 100>>},
   sizes |-> {<<100, 100>>, <<200, 120>>},
   systems |-> {"cg", "math"},
   userPts |-> {<<10, 0>>},
   maxVid |-> MaxVidView, maxEid |-> 0,
   zoomLevels |-> ZoomLevels(MaxZoomSteps), maxPan |-> MaxPan,
   maxDen |-> MaxDen]

InitView ==
  \/ Init
  \/ /\ \E z \in {ZOOM_MIN, ZOOM_MAX}, c \in ViewProfile.bootSizes :
          /\ state = [bootstrap(InitState, c[1], c[2]) EXCEPT !.zoom = z]
          /\ canvas = c
     /\ pc = "run"
     /\ status = InitStatus

NextView ==
  \/ Boot(ViewProfile)
  \/ Resize(ViewProfile)
  \/ MouseMove(ViewProfile)
  \/ MouseDown(ViewProfile)
  \/ MouseUp(ViewProfile)
  \/ MouseLeave(ViewProfile)
  \/ Wheel(ViewProfile)
  \/ ResetView(ViewProfile)
  \/ SetCoordSystem(ViewProfile)
  \/ SetMode(ViewProfile)
  \/ AddVertexByCoords(ViewProfile)
  \/ ClearAll(ViewProfile)

SpecView == InitView /\ [][NextView]_vars

----------------------------------------------------------------------------
(* Properties of the graph store, checked under Spec.                      *)

Range(f) == {f[i] : i \in DOMAIN f}

\* the world point under the screen point p
WorldOf(s, p) == screenToWorld(s, Q(p[1]), Q(p[2]))

\* no edge joins a vertex to itself, and no two edges join the same
\* unordered pair of vertices
EdgesSimple(s) ==
  \A i \in DOMAIN s.edges :
    /\ s.edges[i].v1 # s.edges[i].v2
    /\ \A j \in DOMAIN s.edges :
         i # j => {s.edges[i].v1, s.edges[i].v2}
                    # {s.edges[j].v1, s.edges[j].v2}

\* C1: in every reachable state no edge has v1 = v2 and no two edges connect
\* the same unordered vertex pair; an edge-mode click that would connect the
\* pending vertex A with B when A = B or an edge (A, B) or (B, A) exists
\* adds no edge.
C1_EdgesSimple ==
  /\ EdgesSimple(state)
  /\ \A p \in GraphProfile.clickPts :
       \A w \in {WorldOf(state, p)} :
         \A n \in {handleEdgeClick(state, w[1], w[2])} :
           LET a == state.edgePending
               b == vertexAt(state, w[1], w[2])
           IN  /\ EdgesSimple(n)
               /\ (a # NoId /\ (a = b \/ (b # NoId
                                            /\ alreadyExists(state, a, b))))
                    => n.edges = state.edges

\* C1: edge mode, one edge (A, B), B is the pending source and the click
\* point is on A: the duplicate (B, A) is attempted and no edge is added
C1_Witness ==
  /\ state.mode = "edge"
  /\ Len(state.edges) = 1
  /\ state.edgePending = state.edges[1].v2
  /\ \E p \in GraphProfile.clickPts :
       LET w == WorldOf(state, p)
       IN  /\ vertexAt(state, w[1], w[2]) = state.edges[1].v1
           /\ handleEdgeClick(state, w[1], w[2]).edges = state.edges
           /\ handleEdgeClick(state, w[1], w[2]).edgePending = NoId

\* both endpoints of every edge are ids of vertices of the list
RefIntegrity(s) ==
  \A i \in DOMAIN s.edges :
    {s.edges[i].v1, s.edges[i].v2} \subseteq VertexIds(s)

\* the edges _drawEdges skips: an endpoint is not found among the vertices
drawEdgesSkipped(s) ==
  {i \in DOMAIN s.edges :
     \/ ~ \E k \in DOMAIN s.vertices : s.vertices[k].id = s.edges[i].v1
     \/ ~ \E k \in DOMAIN s.vertices : s.vertices[k].id = s.edges[i].v2}

\* C2: in every reachable state both endpoints of every edge are ids of
\* vertices of the vertex list, so the renderer skips no edge; after
\* deleteVertex(id) no edge refers to id and the integrity holds again.
C2_RefIntegrity ==
  /\ RefIntegrity(state)
  /\ drawEdgesSkipped(state) = {}
  /\ \A id \in VertexIds(state) :
       \A n \in {deleteVertex(state, id)} :
         /\ \A i \in DOMAIN n.edges : n.edges[i].v1 # id /\ n.edges[i].v2 # id
         /\ RefIntegrity(n)
         /\ drawEdgesSkipped(n) = {}

\* C2: two edges, the deleted vertex is an endpoint of exactly one of them:
\* that edge is removed with it and the other one is kept
C2_Witness ==
  /\ Len(state.edges) = 2
  /\ \E id \in VertexIds(state) :
       /\ Len(deleteVertex(state, id).edges) = 1
       /\ Len(deleteVertex(state, id).vertices) = Len(state.vertices) - 1

\* C3: a step that is deleteVertex(V), for a vertex V of a reachable state,
\* leads to a state in which none of selVertex, edgePending and dragVertex
\* refers to V, also when a drag of V is in progress.
C3_NoReferenceToDeleted ==
  [][\A id \in VertexIds(state) :
       state' = deleteVertex(state, id)
         => /\ state'.selVertex # id
            /\ state'.edgePending # id
            /\ state'.dragVertex # id]_vars

\* C4: deleteVertex(V) keeps every other vertex with its id and position and
\* every edge with no endpoint V with its id and endpoints, and adds none;
\* nextVid, nextEid, zoom, panX, panY and mode are unchanged, and a selection
\* or a pending source other than V is kept.
C4_DeleteVertexFrame ==
  \A id \in VertexIds(state) :
    \A n \in {deleteVertex(state, id)} :
        /\ \A v \in Range(state.vertices) :
             v.id # id => v \in Range(n.vertices)
        /\ \A e \in Range(state.edges) :
             (e.v1 # id /\ e.v2 # id) => e \in Range(n.edges)
        /\ Range(n.vertices) \subseteq Range(state.vertices)
        /\ Range(n.edges) \subseteq Range(state.edges)
        /\ n.nextVid = state.nextVid
        /\ n.nextEid = state.nextEid
        /\ n.zoom = state.zoom
        /\ n.panX = state.panX
        /\ n.panY = state.panY
        /\ n.mode = state.mode
        /\ (state.selVertex # id => n.selVertex = state.selVertex)
        /\ (state.edgePending # id => n.edgePending = state.edgePending)

\* C4: three vertices and two edges; V is an endpoint of one edge only, the
\* selection and the pending source are two other vertices, and
\* deleteVertex(V) keeps them, the other edge and the other two vertices
C4_Witness ==
  /\ Len(state.vertices) = 3
  /\ Len(state.edges) = 2
  /\ \E id \in VertexIds(state) :
       LET n == deleteVertex(state, id)
       IN  /\ state.selVertex \notin {NoId, id}
           /\ state.edgePending \notin {NoId, id}
           /\ n.selVertex = state.selVertex
           /\ n.edgePending = state.edgePending
           /\ Len(n.edges) = 1
           /\ Len(n.vertices) = 2

\* every id of the lists was given out by its counter, once
IdsFresh(s) ==
  /\ \A i \in DOMAIN s.vertices :
       /\ s.vertices[i].id >= 0
       /\ s.vertices[i].id < s.nextVid
       /\ \A j \in DOMAIN s.vertices :
            i # j => s.vertices[i].id # s.vertices[j].id
  /\ \A i \in DOMAIN s.edges :
       /\ s.edges[i].id >= 0
       /\ s.edges[i].id < s.nextEid
       /\ \A j \in DOMAIN s.edges : i # j => s.edges[i].id # s.edges[j].id

\* C5, as stated: no step of the program decreases nextVid or nextEid.
C5_CountersNeverDecrease ==
  [][/\ state'.nextVid >= state.nextVid
     /\ state'.nextEid >= state.nextEid]_vars

\* C5, amended: a step other than clearAll decreases neither nextVid nor
\* nextEid, and every id in the lists is below its counter and is held by
\* one vertex (or edge) only, so that no id is given out twice between two
\* clearAll, also after deletions; a step that decreases a counter is
\* clearAll and sets both counters to 0.
C5_CountersDecreaseOnlyByClearAll ==
  [][/\ \/ /\ state'.nextVid >= state.nextVid
           /\ state'.nextEid >= state.nextEid
        \/ /\ state' = clearAll(state)
           /\ state'.nextVid = 0
           /\ state'.nextEid = 0
     /\ IdsFresh(state')]_vars

\* C5: the vertex created last has been deleted and another one has been
\* created since: the list holds the ids 0 and 2, not 1, and nextVid is 3;
\* the edge created first has been deleted and nextEid is still 1
C5_Witness ==
  /\ state.nextVid = 3
  /\ VertexIds(state) = {0, 2}
  /\ state.nextEid = 1
  /\ state.edges = <<>>

\* C6: clearAll(), in any reachable state, leaves both lists empty and
\* selVertex, edgePending and dragVertex null; the vertex added next has the
\* id 0 and so has the edge added next.
C6_ClearAllResets ==
  \A n \in {clearAll(state)} :
    /\ n.vertices = <<>>
    /\ n.edges = <<>>
    /\ n.selVertex = NoId
    /\ n.edgePending = NoId
    /\ n.dragVertex = NoId
    /\ n.nextVid = InitState.nextVid
    /\ n.nextEid = InitState.nextEid
    /\ \A n2 \in {addVertex(addVertex(n, Q(0), Q(0)), Q(100), Q(100))} :
         /\ n2.vertices[1].id = 0
         /\ \A n3 \in {handleEdgeClick(n2, Q(0), Q(0))} :
              \A n4 \in {handleEdgeClick(n3, Q(100), Q(100))} :
                /\ Len(n4.edges) = 1
                /\ n4.edges[1].id = 0

\* C6: vertices and edges exist, both counters are above 0, a vertex is
\* selected and dragged, and clearAll() empties and resets all of it
C6_Witness ==
  /\ Len(state.vertices) >= 2
  /\ Len(state.edges) >= 1
  /\ state.nextVid > Len(state.vertices)
  /\ state.nextEid > Len(state.edges)
  /\ state.selVertex # NoId
  /\ state.dragVertex # NoId
  /\ clearAll(state).vertices = <<>>
  /\ clearAll(state).nextVid = 0
  /\ clearAll(state).nextEid = 0
  /\ clearAll(state).dragVertex = NoId

----------------------------------------------------------------------------
(* Properties of the view transform and of the origin, checked under       *)
(* SpecView.                                                               *)

\* the cursor positions of the wheel events the properties are stated for
CursorPts == ViewProfile.wheelPts \cup {<<0, 0>>, <<20, 20>>, <<77, 13>>}

\* C7: clearAll() leaves mathOx, mathOy, zoom, panX, panY, coordSystem and
\* mode unchanged.
C7_ClearAllFrame ==
  LET n == clearAll(state)
  IN  /\ n.mathOx = state.mathOx
      /\ n.mathOy = state.mathOy
      /\ n.zoom = state.zoom
      /\ n.panX = state.panX
      /\ n.panY = state.panY
      /\ n.coordSystem = state.coordSystem
      /\ n.mode = state.mode

\* C7: a vertex exists, the origin is set, the system is "math", the mode is
\* not the initial one, zoom and pan are not the initial ones, and
\* clearAll() removes the vertex and keeps the rest
C7_Witness ==
  /\ state.vertices # <<>>
  /\ state.mathOx = Q(50)
  /\ state.coordSystem = "math"
  /\ state.mode = "edge"
  /\ state.zoom # Q(1)
  /\ state.panX # Q(20)
  /\ state.panY # Q(20)
  /\ clearAll(state).vertices = <<>>
  /\ clearAll(state).zoom = state.zoom
  /\ clearAll(state).panX = state.panX
  /\ clearAll(state).mode = "edge"

InRange(z) == Leq(ZOOM_MIN, z) /\ Leq(z, ZOOM_MAX)

\* C8: in every reachable state 0.05 <= zoom <= 30, and so it is after any
\* wheel event and after resetView; a wheel event whose zoom * factor is
\* above 30 (below 0.05) leaves zoom at 30 (at 0.05).
C8_ZoomInRange ==
  /\ InRange(state.zoom)
  /\ InRange(resetView(state).zoom)
  /\ \A up \in BOOLEAN, p \in ViewProfile.wheelPts :
       \A n \in {onWheel(state, up, Q(p[1]), Q(p[2]))},
          z \in {Mul(state.zoom, IF up THEN ZOOM_FACTOR
                                 ELSE Div(Q(1), ZOOM_FACTOR))} :
         /\ InRange(n.zoom)
         /\ InRange(z) => n.zoom = z
         /\ ~ Leq(z, ZOOM_MAX) => n.zoom = ZOOM_MAX
         /\ ~ Leq(ZOOM_MIN, z) => n.zoom = ZOOM_MIN

\* C8: zoom is 0.05 after a pan; a wheel event away from the viewer, which
\* asks for 0.05 / 1.15, leaves it at 0.05, and one towards the viewer
\* takes it to 0.05 * 1.15
C8_Witness ==
  /\ state.zoom = ZOOM_MIN
  /\ state.panX # Q(20)
  /\ \E p \in ViewProfile.wheelPts :
       /\ onWheel(state, FALSE, Q(p[1]), Q(p[2])).zoom = ZOOM_MIN
       /\ onWheel(state, TRUE, Q(p[1]), Q(p[2])).zoom
            = Mul(ZOOM_MIN, ZOOM_FACTOR)

\* C9: for a wheel event at the cursor (sx, sy), in either direction,
\* screenToWorld(sx, sy) is the same point, on both axes, under the view
\* transform before the event and under the one after it, also when the new
\* zoom is clamped.
C9_CursorFixed ==
  \A up \in BOOLEAN, p \in CursorPts :
    LET n == onWheel(state, up, Q(p[1]), Q(p[2]))
    IN  screenToWorld(n, Q(p[1]), Q(p[2]))
          = screenToWorld(state, Q(p[1]), Q(p[2]))

\* C9: zoom is 30 after a pan, and the cursor is not on the pan point; a
\* wheel event towards the viewer is clamped, one away from the viewer
\* changes zoom and pan, and the world point under the cursor is the same
\* after either
C9_Witness ==
  /\ state.zoom = ZOOM_MAX
  /\ state.panX # Q(20)
  /\ \E p \in ViewProfile.wheelPts :
       LET u == onWheel(state, TRUE, Q(p[1]), Q(p[2]))
           d == onWheel(state, FALSE, Q(p[1]), Q(p[2]))
           w == screenToWorld(state, Q(p[1]), Q(p[2]))
       IN  /\ u.zoom = ZOOM_MAX
           /\ screenToWorld(u, Q(p[1]), Q(p[2])) = w
           /\ d.zoom = Div(ZOOM_MAX, ZOOM_FACTOR)
           /\ d.panX # state.panX
           /\ d.panY # state.panY
           /\ screenToWorld(d, Q(p[1]), Q(p[2])) = w

\* C10: the step that sets the origin sets it to the centre of the canvas of
\* that first resize; once set, no step changes mathOx or mathOy, and no
\* resize to any size would; once main.js has run the origin is set.
C10_OriginSetOnce ==
  [][/\ state.mathOx = Null
          => /\ state'.mathOx = Div(Q(canvas'[1]), Q(2))
             /\ state'.mathOy = Div(Q(canvas'[2]), Q(2))
     /\ state.mathOx # Null
          => /\ state'.mathOx = state.mathOx
             /\ state'.mathOy = state.mathOy
             /\ \A c \in ViewProfile.sizes :
                  /\ resize(state, c[1], c[2]).mathOx = state.mathOx
                  /\ resize(state, c[1], c[2]).mathOy = state.mathOy
     /\ pc' = "run" => state'.mathOx # Null /\ state'.mathOy # Null]_vars

\* C10: the canvas has been resized to 200 x 120 after the first layout at
\* 100 x 100, the system is "math", zoom and pan have changed, and the
\* origin is still (50, 50)
C10_Witness ==
  /\ pc = "run"
  /\ canvas = <<200, 120>>
  /\ state.coordSystem = "math"
  /\ state.zoom # Q(1)
  /\ state.panX # Q(20)
  /\ state.mathOx = Q(50)
  /\ state.mathOy = Q(50)

----------------------------------------------------------------------------
(* Properties of setCoordSystem and setMode.                               *)

\* the vertex list as the sidebar shows it after refreshVertexList: the id
\* and the user coordinates of every vertex
vertexLabels(s) ==
  [i \in DOMAIN s.vertices |->
     [id |-> s.vertices[i].id,
      xy |-> worldToUser(s, s.vertices[i].cx, s.vertices[i].cy)]]

\* C11: setCoordSystem(sys), for either system and in any reachable state,
\* sets coordSystem to sys and leaves the vertices with their positions, the
\* edges, nextVid, nextEid, mathOx, mathOy, zoom, panX and panY unchanged.
C11_SetCoordSystemFrame ==
  \A sys \in {"cg", "math"} :
    \A n \in {setCoordSystem(state, sys)} :
      /\ n.coordSystem = sys
      /\ n.vertices = state.vertices
      /\ n.edges = state.edges
      /\ n.nextVid = state.nextVid
      /\ n.nextEid = state.nextEid
      /\ n.mathOx = state.mathOx
      /\ n.mathOy = state.mathOy
      /\ n.zoom = state.zoom
      /\ n.panX = state.panX
      /\ n.panY = state.panY

\* C11: the system is "cg", the origin is set, a vertex exists, zoom and pan
\* are not the initial ones, and setCoordSystem("math") changes the system
\* and the coordinates shown for the vertex, not its stored position
C11_Witness ==
  /\ state.coordSystem = "cg"
  /\ state.mathOx # Null
  /\ state.vertices # <<>>
  /\ state.zoom # Q(1)
  /\ state.panX # Q(20)
  /\ \A n \in {setCoordSystem(state, "math")} :
       /\ n.coordSystem = "math"
       /\ n.vertices = state.vertices
       /\ vertexLabels(n) # vertexLabels(state)

\* C12: setMode(m), for any mode m and in any reachable state, sets mode to
\* m and edgePending and selVertex to null, and leaves the vertices (ids and
\* positions), the edges, nextVid and nextEid unchanged.
C12_SetModeResets ==
  \A m \in Modes :
    \A n \in {setMode(state, m)} :
      /\ n.mode = m
      /\ n.edgePending = NoId
      /\ n.selVertex = NoId
      /\ n.vertices = state.vertices
      /\ n.edges = state.edges
      /\ n.nextVid = state.nextVid
      /\ n.nextEid = state.nextEid

\* C12: edge mode with vertices, an edge, a pending source and a selected
\* vertex; setMode("select") clears both and keeps the graph
C12_Witness ==
  /\ state.mode = "edge"
  /\ Len(state.vertices) >= 2
  /\ state.edges # <<>>
  /\ state.edgePending # NoId
  /\ state.selVertex # NoId
  /\ \A n \in {setMode(state, "select")} :
       /\ n.mode = "select"
       /\ n.edgePending = NoId
       /\ n.selVertex = NoId
       /\ n.vertices = state.vertices
       /\ n.edges = state.edges

----------------------------------------------------------------------------
(* The two-click protocol of the edge mode, checked under Spec, where no   *)
(* pan is in progress when a click arrives.                                *)

\* the edges between a and b, in either order
EdgesBetween(s, a, b) ==
  {e \in Range(s.edges) : {e.v1, e.v2} = {a, b}}

----------------------------------------------------------------------------
(* SpecPan: the editing of the graph with both mouse buttons: the left one *)
(* clicks and drags, the middle one pans, and either may be pressed while  *)
(* the other is held.  The zoom is the initial one; the pointer moves over *)
(* the canvas only while a button is held.                                 *)

PanProfile ==
  [clickPts |-> {<<20, 20>>},
   downPts |-> {<<20, 20>>},
   movePts |-> {<<30, 30>>},
   wheelPts |-> {},
   buttons |-> {0, 1},
   hover |-> FALSE,
   bootSizes |-> {<<100, 100>>},
   sizes |-> {<<100, 100>>},
   systems |-> {"cg"},
   userPts |-> {},
   maxVid |-> MaxVidPan, maxEid |-> MaxEidPan,
   zoomLevels |-> {Q(1)}, maxPan |-> MaxPan, maxDen |-> 1]

NextPan ==
  \/ Boot(PanProfile)
  \/ MouseMove(PanProfile)
  \/ MouseDown(PanProfile)
  \/ MouseUp(PanProfile)
  \/ Click(PanProfile)
  \/ MouseLeave(PanProfile)
  \/ ResetView(PanProfile)
  \/ SetMode(PanProfile)
  \/ ClearAll(PanProfile)

SpecPan == Init /\ [][NextPan]_vars

\* C16, as stated: in vertex mode a click on the canvas, in any reachable
\* state, appends one vertex with the id nextVid had, at screenToWorld of
\* the click point, and nextVid grows by one.
C16_EveryClickInserts ==
  state.mode = "vertex" =>
    \A p \in PanProfile.clickPts :
      \A w \in {WorldOf(state, p)}, c \in {clickAt(state, p)} :
        /\ c.vertices = Append(state.vertices,
                               [id |-> state.nextVid,
                                cx |-> w[1], cy |-> w[2]])
        /\ c.nextVid = state.nextVid + 1

\* C16, amended: in vertex mode a click on the canvas while no pan is in
\* progress appends one vertex with the id nextVid had, at screenToWorld of
\* the click point, and nextVid grows by one, also when the hit test finds
\* a vertex at that point; a click while a pan is in progress leaves the
\* vertex list and nextVid unchanged.
C16_ClickInsertsUnlessPanning ==
  state.mode = "vertex" =>
    \A p \in PanProfile.clickPts :
      \A w \in {WorldOf(state, p)}, c \in {clickAt(state, p)} :
        IF state.isPanning
        THEN /\ c.vertices = state.vertices
             /\ c.nextVid = state.nextVid
        ELSE /\ c.vertices = Append(state.vertices,
                                    [id |-> state.nextVid,
                                     cx |-> w[1], cy |-> w[2]])
             /\ c.nextVid = state.nextVid + 1

\* C16: vertex mode after a pan, no pan in progress, and the click point is
\* on a vertex of the list; the click adds a second vertex at the same
\* world point
C16_Witness ==
  /\ state.mode = "vertex"
  /\ ~ state.isPanning
  /\ state.panX # Q(20)
  /\ Len(state.vertices) = 1
  /\ \E p \in PanProfile.clickPts :
       \A w \in {WorldOf(state, p)}, c \in {clickAt(state, p)} :
         /\ vertexAt(state, w[1], w[2]) # NoId
         /\ Len(c.vertices) = 2
         /\ c.vertices[2].cx = state.vertices[1].cx
         /\ c.vertices[2].cy = state.vertices[1].cy
         /\ c.vertices[2].id = state.nextVid

\* the part of the state that clicks and drags work on
Edited(s) ==
  <<s.vertices, s.edges, s.selVertex, s.edgePending, s.dragVertex>>

\* C20: while a pan is in progress, a press of the left button, a move of the
\* pointer or a click changes none of the vertices and their positions, the
\* edges, selVertex, edgePending and dragVertex.
C20_PanSuppressesOtherHandling ==
  state.isPanning =>
    /\ \A p \in PanProfile.downPts :
         Edited(onMouseDown(state, 0, Q(p[1]), Q(p[2]))) = Edited(state)
    /\ \A p \in PanProfile.movePts :
         Edited(onMouseMove(state, Q(p[1]), Q(p[2]))) = Edited(state)
    /\ \A p \in PanProfile.clickPts :
         Edited(onClick(state, Q(p[1]), Q(p[2]))) = Edited(state)

----------------------------------------------------------------------------
(* SpecHit: the hit test.  Vertices are placed by clicks at three points   *)
(* of one column of the screen, 12 and 13 pixels apart, under the zoom     *)
(* levels the wheel reaches at the screen point of the initial pan; the    *)
(* select mode and the edge mode hit-test the same points.                 *)

\* the zoom levels of SpecHit: one wheel step around 1 and around each
\* clamp.  A second step gives squared distances whose exact numerators
\* exceed the 32-bit integers of TLC.
HitZoomLevels == ZoomLevels(1)

HitProfile ==
  [clickPts |-> {<<20, 20>>, <<20, 32>>, <<20, 33>>},
   downPts |-> {<<20, 32>>},
   movePts |-> {},
   wheelPts |-> {<<20, 20>>},
   buttons |-> {0},
   hover |-> FALSE,
   bootSizes |-> {<<100, 100>>},
   sizes |-> {<<100, 100>>},
   systems |-> {"cg"},
   userPts |-> {},
   maxVid |-> MaxVidHit, maxEid |-> 0,
   zoomLevels |-> HitZoomLevels, maxPan |-> 0, maxDen |-> 1]

\* the initial state, or the state after main.js and wheel events at the
\* screen point of the pan that took the zoom to one of its limits
InitHit ==
  \/ Init
  \/ /\ \E z \in {ZOOM_MIN, ZOOM_MAX}, c \in HitProfile.bootSizes :
          /\ state = [bootstrap(InitState, c[1], c[2]) EXCEPT !.zoom = z]
          /\ canvas = c
     /\ pc = "run"
     /\ status = InitStatus

NextHit ==
  \/ Boot(HitProfile)
  \/ MouseDown(HitProfile)
  \/ MouseUp(HitProfile)
  \/ Click(HitProfile)
  \/ Wheel(HitProfile)
  \/ SetMode(HitProfile)
  \/ ListDeleteVertex(HitProfile)

SpecHit == InitHit /\ [][NextHit]_vars

\* the zoom levels the hit test is evaluated at in the state s: its own,
\* and 0.1, 1 and 10 in place of a zoom between 0.1 and 10
HitZooms(s) ==
  {s.zoom} \cup (IF Leq(Rat(1, 10), s.zoom) /\ Leq(s.zoom, Q(10))
                 THEN {Rat(1, 10), Q(1), Q(10)}
                 ELSE {})

\* the square of the distance, in screen pixels, from the screen position
\* of the vertex v (its world position times the zoom, plus the pan) to the
\* screen point p
ScreenDist2(s, v, p) ==
  LET dx == Sub(Add(Mul(v.cx, s.zoom), s.panX), Q(p[1]))
      dy == Sub(Add(Mul(v.cy, s.zoom), s.panY), Q(p[2]))
  IN  Add(Mul(dx, dx), Mul(dy, dy))

\* the square of the world distance from the vertex v to the world point w
WorldDist2(v, w) ==
  LET dx == Sub(v.cx, w[1])
      dy == Sub(v.cy, w[2])
  IN  Add(Mul(dx, dx), Mul(dy, dy))

\* the vertex v is at most 12 pixels from the screen point p: it is so along
\* each axis, and the sum of the squares is at most 144
Within12(s, v, p) ==
  /\ Leq(Q(p[1] - 12), Add(Mul(v.cx, s.zoom), s.panX))
  /\ Leq(Add(Mul(v.cx, s.zoom), s.panX), Q(p[1] + 12))
  /\ Leq(Q(p[2] - 12), Add(Mul(v.cy, s.zoom), s.panY))
  /\ Leq(Add(Mul(v.cy, s.zoom), s.panY), Q(p[2] + 12))
  /\ Leq(ScreenDist2(s, v, p), Q(144))

\* the positions in the list of the vertices at most 12 pixels from p
NearOnScreen(s, p) ==
  {i \in DOMAIN s.vertices : Within12(s, s.vertices[i], p)}

\* the positions in the list of the vertices at world distance at most
\* (V_RADIUS + 4) / zoom from w
NearInWorld(s, w) ==
  {i \in DOMAIN s.vertices :
     Leq(WorldDist2(s.vertices[i], w),
         Mul(Div(Q(V_RADIUS + 4), s.zoom), Div(Q(V_RADIUS + 4), s.zoom)))}

\* C17: at the zoom of the state, and at the zooms 0.1, 1 and 10 with the
\* vertices of a state whose zoom lies between them, for every
\* screen point p and its world point w, the vertices within world distance
\* (V_RADIUS + 4) / zoom of w, boundary included, are the ones within 12
\* screen pixels of p; vertexAt(w) is null iff there is none, and otherwise
\* the first of them in the order of the list.
C17_VertexAtFirstWithinRadius ==
  \A z \in HitZooms(state), p \in HitProfile.clickPts :
    \A s \in {[state EXCEPT !.zoom = z]} :
      \A w \in {WorldOf(s, p)} :
        \A near \in {NearInWorld(s, w)}, v \in {vertexAt(s, w[1], w[2])} :
          /\ near = NearOnScreen(s, p)
          /\ (v = NoId) = (near = {})
          /\ near # {} =>
               \E i \in near : /\ \A j \in near : i <= j
                               /\ v = s.vertices[i].id

\* C17: at a zoom other than 1, the first vertex is exactly 12 pixels from
\* a point and the second is on it, and vertexAt returns the first; one
\* pixel further it returns the second
C17_Witness ==
  /\ state.zoom # Q(1)
  /\ Len(state.vertices) = 2
  /\ \E p \in HitProfile.clickPts :
       /\ ScreenDist2(state, state.vertices[1], p) = Q(144)
       /\ ScreenDist2(state, state.vertices[2], p) = Q(0)
       /\ vertexAt(state, WorldOf(state, p)[1], WorldOf(state, p)[2])
            = state.vertices[1].id
  /\ \E p \in HitProfile.clickPts :
       /\ ScreenDist2(state, state.vertices[1], p) = Q(169)
       /\ vertexAt(state, WorldOf(state, p)[1], WorldOf(state, p)[2])
            = state.vertices[2].id

----------------------------------------------------------------------------
(* SpecCoords: the two coordinate systems.  The wrapper has an even or an  *)
(* odd size at load, so the math origin has integer or half-integer        *)
(* coordinates; vertices are typed in, in either system.                   *)

CoordsProfile ==
  [clickPts |-> {},
   downPts |-> {},
   movePts |-> {},
   wheelPts |-> {},
   buttons |-> {0},
   hover |-> FALSE,
   bootSizes |-> {<<100, 100>>, <<101, 75>>},
   sizes |-> {<<100, 100>>, <<101, 75>>},
   systems |-> {"cg", "math"},
   userPts |-> {<<0, 0>>, <<100, 0>>, <<-3, 7>>},
   maxVid |-> MaxVidCoords, maxEid |-> 0,
   zoomLevels |-> {Q(1)}, maxPan |-> 0, maxDen |-> 1]

NextCoords ==
  \/ Boot(CoordsProfile)
  \/ Resize(CoordsProfile)
  \/ SetCoordSystem(CoordsProfile)
  \/ AddVertexByCoords(CoordsProfile)
  \/ ListDeleteVertex(CoordsProfile)
  \/ ClearAll(CoordsProfile)

SpecCoords == Init /\ [][NextCoords]_vars

\* world coordinates the conversions are evaluated at, besides the ones of
\* the vertices: integers, halves and other fractions of either sign
CoordSamples ==
  {Rat(-5, 2), Rat(-3, 2), Rat(-1, 2), Rat(-1, 4), Q(0), Rat(1, 3),
   Rat(1, 2), Rat(3, 4), Rat(3, 2), Q(100)}

\* the world points the conversions are evaluated at in the state s
CoordPoints(s) ==
  {<<a, Neg(a)>> : a \in CoordSamples}
    \cup {<<a, Add(a, Rat(1, 2))>> : a \in CoordSamples}
    \cup {<<s.vertices[i].cx, s.vertices[i].cy>> : i \in DOMAIN s.vertices}

\* |a - b| <= 1/2
HalfClose(a, b) ==
  /\ Leq(Sub(a, b), Rat(1, 2))
  /\ Leq(Sub(b, a), Rat(1, 2))

\* C18: once the math origin is set, in the cg and in the math system, for
\* every world point p, userToWorld(worldToUser(p)) is within 0.5 of p on
\* each axis.
C18_RoundTripWithinHalf ==
  pc = "run" =>
    \A sys \in {"cg", "math"} :
      \A s \in {setCoordSystem(state, sys)} :
        \A p \in CoordPoints(s) :
          \A u \in {worldToUser(s, p[1], p[2])} :
            \A w \in {userToWorld(s, Q(u[1]), Q(u[2]))} :
              /\ HalfClose(w[1], p[1])
              /\ HalfClose(w[2], p[2])

\* C18: the math system with the half-integer origin (50.5, 37.5) and a
\* vertex typed in it; the round trip of the point (0, 0) ends half a unit
\* away on each axis, and the one of the vertex ends on the vertex
C18_Witness ==
  /\ pc = "run"
  /\ state.coordSystem = "math"
  /\ state.mathOx = Rat(101, 2)
  /\ Len(state.vertices) = 1
  /\ \A u \in {worldToUser(state, Q(0), Q(0))} :
       /\ u = <<-50, 38>>
       /\ userToWorld(state, Q(u[1]), Q(u[2])) = <<Rat(1, 2), Rat(-1, 2)>>
  /\ \A v \in {state.vertices[1]} :
       \A u \in {worldToUser(state, v.cx, v.cy)} :
         /\ u = <<-3, 7>>
         /\ v.cx # Q(-3)
         /\ userToWorld(state, Q(u[1]), Q(u[2])) = <<v.cx, v.cy>>

\* the integer n with n - 1/2 <= a < n + 1/2
Nearest(a) ==
  CHOOSE n \in ((a[1] \div a[2]) - 1)..((a[1] \div a[2]) + 1) :
    /\ Leq(Sub(Q(n), Rat(1, 2)), a)
    /\ ~ Leq(Add(Q(n), Rat(1, 2)), a)

\* C19: once the math origin (ox, oy) is set, worldToUser(wx, wy) is
\* (round(wx), round(wy)) in the cg system and (round(wx - ox),
\* round(oy - wy)) in the math system, and these are the coordinates the
\* vertex list shows.
C19_WorldToUser ==
  pc = "run" =>
    \A sys \in {"cg", "math"} :
      \A s \in {setCoordSystem(state, sys)} :
        /\ \A p \in CoordPoints(s) :
             worldToUser(s, p[1], p[2]) =
               IF sys = "cg"
               THEN <<Nearest(p[1]), Nearest(p[2])>>
               ELSE <<Nearest(Sub(p[1], s.mathOx)),
                      Nearest(Sub(s.mathOy, p[2]))>>
        /\ \A l \in {vertexLabels(s)} :
             \A i \in DOMAIN s.vertices :
               /\ l[i].id = s.vertices[i].id
               /\ l[i].xy =
                    IF sys = "cg"
                    THEN <<Nearest(s.vertices[i].cx),
                           Nearest(s.vertices[i].cy)>>
                    ELSE <<Nearest(Sub(s.vertices[i].cx, s.mathOx)),
                           Nearest(Sub(s.mathOy, s.vertices[i].cy))>>

\* C19: the cg system with the math origin at (50, 50) and vertices at the
\* world points (0, 0) and (100, 0): the list shows (0, 0) and (100, 0),
\* and (-50, 50) and (50, 50) after the switch to the math system
C19_Witness ==
  /\ pc = "run"
  /\ state.coordSystem = "cg"
  /\ <<state.mathOx, state.mathOy>> = <<Q(50), Q(50)>>
  /\ Len(state.vertices) = 2
  /\ <<state.vertices[1].cx, state.vertices[1].cy>> = <<Q(0), Q(0)>>
  /\ <<state.vertices[2].cx, state.vertices[2].cy>> = <<Q(100), Q(0)>>
  /\ vertexLabels(state)[1].xy = <<0, 0>>
  /\ vertexLabels(state)[2].xy = <<100, 0>>
  /\ \A l \in {vertexLabels(setCoordSystem(state, "math"))} :
       /\ l[1].xy = <<-50, 50>>
       /\ l[2].xy = <<50, 50>>

----------------------------------------------------------------------------
(* SpecMsg: the status message.  The commands and the click listener run   *)
(* with their calls of setMsg, and a pending timer may fire between any    *)
(* two of them.  A message is the tuple of its wording and of the ids and  *)
(* coordinates it names; Null is the empty text.                           *)

\* the messages handleEdgeClick(wx, wy) passes to setMsg, in order
handleEdgeClickSays(s, wx, wy) ==
  LET v == vertexAt(s, wx, wy)
  IN  IF v = NoId THEN << <<"miss">> >>
      ELSE IF s.edgePending = NoId THEN << <<"first", v>> >>
      ELSE IF s.edgePending = v THEN << <<"cancelled">> >>
      ELSE IF alreadyExists(s, s.edgePending, v) THEN << <<"exists">> >>
      ELSE << <<"edge", s.nextEid, s.edgePending, v>> >>

\* the messages the click listener passes to setMsg, in order
onClickSays(s, sx, sy) ==
  IF s.dragVertex # NoId \/ s.isPanning THEN <<>>
  ELSE LET w == screenToWorld(s, sx, sy)
           v == vertexAt(s, w[1], w[2])
       IN  CASE s.mode = "vertex" -> << <<"added", s.nextVid>> >>
             [] s.mode = "edge"   -> handleEdgeClickSays(s, w[1], w[2])
             [] s.mode = "select" ->
                  IF v = NoId THEN <<>>
                  ELSE LET i == CHOOSE i \in DOMAIN s.vertices :
                                  s.vertices[i].id = v
                           uc == worldToUser(s, s.vertices[i].cx,
                                             s.vertices[i].cy)
                       IN  << <<"coords", v, uc[1], uc[2]>> >>

\* the status after the calls of setMsg with the messages of the list
RECURSIVE says(_, _)
says(st, msgs) ==
  IF msgs = <<>> THEN st
  ELSE says(setMsg(st, Head(msgs)), Tail(msgs))

MsgProfile ==
  [clickPts |-> {<<20, 20>>, <<30, 30>>},
   downPts |-> {},
   movePts |-> {},
   wheelPts |-> {},
   buttons |-> {0},
   hover |-> FALSE,
   bootSizes |-> {<<100, 100>>},
   sizes |-> {<<100, 100>>},
   systems |-> {"cg"},
   userPts |-> {},
   maxVid |-> MaxVidMsg, maxEid |-> MaxEidMsg,
   zoomLevels |-> {Q(1)}, maxPan |-> 0, maxDen |-> 1]

\* a listener runs, leaves the state n and has passed msgs to setMsg
HandleSaying(n, msgs) ==
  /\ Handle(MsgProfile, n)
  /\ status' = says(status, msgs)
  /\ status'.nextTimer <= MaxTimers
  /\ UNCHANGED <<canvas, pc>>

MsgClick ==
  \E p \in MsgProfile.clickPts :
    HandleSaying(clickAt(state, p),
                 onClickSays(onMouseUp(state, 0), Q(p[1]), Q(p[2])))

MsgSetMode ==
  \E m \in Modes : HandleSaying(setMode(state, m), << Null >>)

MsgClearAll == HandleSaying(clearAll(state), << <<"cleared">> >>)

MsgResetView == HandleSaying(resetView(state), << <<"reset">> >>)

\* a pending timer fires
MsgTimeout ==
  \E t \in status.pending :
    /\ status' = msgTimeout(status, t)
    /\ UNCHANGED <<state, canvas, pc>>

NextMsg ==
  \/ Boot(MsgProfile)
  \/ MsgClick
  \/ MsgSetMode
  \/ MsgClearAll
  \/ MsgResetView
  \/ MsgTimeout

SpecMsg == Init /\ [][NextMsg]_vars

\* the messages setMsg is applied to in the claims
Messages == {Null, <<"cleared">>, <<"reset">>, <<"added", 0>>}

\* at most one timer is pending, and it is the one _msgTimer names, set
\* for the message that is shown
OneTimer(st) ==
  /\ Cardinality(st.pending) <= 1
  /\ \A t \in st.pending :
       /\ t.id = st.msgTimer
       /\ t.msg = st.text
       /\ st.text # Null

\* C21: in every state at most one timer is pending, and it was set for the
\* message shown, by the last call of setMsg; so the timer of an earlier
\* message cannot fire once a later message is shown.  setMsg(msg) leaves
\* no timer for the empty message and otherwise exactly the one it sets,
\* and a firing timer empties the text it was set for and leaves no timer.
C21_OneTimerPending ==
  /\ OneTimer(status)
  /\ \A m \in Messages :
       \A n \in {setMsg(status, m)} :
         /\ OneTimer(n)
         /\ n.text = m
         /\ (m = Null) => n.pending = {}
         /\ (m # Null) =>
              n.pending = {[id |-> status.nextTimer, msg |-> m]}
  /\ \A t \in status.pending :
       \A n \in {msgTimeout(status, t)} :
         /\ t.msg = status.text
         /\ n.text = Null
         /\ n.pending = {}

\* C21: a message is shown with its timer pending, after an earlier timer
\* was set; a new message replaces the timer, and the earlier one is not
\* among the pending
C21_Witness ==
  /\ status.text # Null
  /\ status.nextTimer >= 2
  /\ status.pending = {[id |-> status.msgTimer, msg |-> status.text]}
  /\ status.msgTimer = status.nextTimer - 1
  /\ \A n \in {setMsg(status, <<"cleared">>)} :
       n.pending = {[id |-> status.nextTimer, msg |-> <<"cleared">>]}

----------------------------------------------------------------------------
(* Deletions by an id that names nothing, checked under Spec.              *)

\* C22: in every reachable state, deleteVertex with an id no vertex has and
\* deleteEdge with an id no edge has return the state as it was, and for
\* every id a second call of either with the same id changes nothing more.
C22_DeleteAbsentAndTwice ==
  /\ \A id \in 0..(MaxVid + 1) :
       \A n \in {deleteVertex(state, id)} :
         /\ id \notin VertexIds(state) => n = state
         /\ deleteVertex(n, id) = n
  /\ \A id \in 0..(MaxEid + 1) :
       \A n \in {deleteEdge(state, id)} :
         /\ id \notin EdgeIds(state) => n = state
         /\ deleteEdge(n, id) = n

\* C22: an edge joins two vertices, one is selected, and the ids of a
\* deleted vertex and of a deleted edge are below the counters; deleting by
\* these ids changes nothing, and deleting the selected vertex twice gives
\* what deleting it once gives
C22_Witness ==
  /\ Len(state.edges) >= 1
  /\ state.selVertex # NoId
  /\ \E id \in 0..(state.nextVid - 1) :
       /\ id \notin VertexIds(state)
       /\ deleteVertex(state, id) = state
  /\ \E id \in 0..(state.nextEid - 1) :
       /\ id \notin EdgeIds(state)
       /\ deleteEdge(state, id) = state
  /\ \A n \in {deleteVertex(state, state.selVertex)} :
       /\ n # state
       /\ deleteVertex(n, state.selVertex) = n

----------------------------------------------------------------------------
(* The select mode, checked under Spec.                                    *)

----------------------------------------------------------------------------
(* SpecDraw: the frames.  Every listener runs, with the left button, the   *)
(* wheel at the screen point of the initial pan and the pointer hovering;  *)
(* the pan stays the initial one.                                          *)
(* For each listener and command, the operator ...Drawn gives the state at *)
(* its last call of draw(), in a list that is empty when it calls none.    *)

\* what draw() reads of the state: the transform it sets, the origin of the
\* grid and the axes, the vertices with the rings of the selected and the
\* pending one, the edges, and the dashed segment from the pending vertex
\* to the pointer (draw.js 155-169)
Visible(s) ==
  [zoom |-> s.zoom, panX |-> s.panX, panY |-> s.panY,
   origin |-> origin(s),
   vertices |-> s.vertices, edges |-> s.edges,
   selVertex |-> s.selVertex, edgePending |-> s.edgePending,
   preview |->
     IF /\ s.mode = "edge"
        /\ s.edgePending # NoId
        /\ s.lastMouse # Null
        /\ s.edgePending \in VertexIds(s)
     THEN <<s.lastMouse>>
     ELSE <<>>]

setModeDrawn(s, m) == << setMode(s, m) >>

setCoordSystemDrawn(s, sys) == << setCoordSystem(s, sys) >>

addVertexDrawn(s, wx, wy) == << addVertex(s, wx, wy) >>

deleteVertexDrawn(s, id) == << deleteVertex(s, id) >>

selectFromListDrawn(s, id) == << selectFromList(s, id) >>

\* no draw() where the hit test finds no vertex (line 139)
handleEdgeClickDrawn(s, wx, wy) ==
  IF vertexAt(s, wx, wy) = NoId THEN <<>>
  ELSE << handleEdgeClick(s, wx, wy) >>

deleteEdgeDrawn(s, id) == << deleteEdge(s, id) >>

clearAllDrawn(s) == << clearAll(s) >>

resetViewDrawn(s) == << resetView(s) >>

onMouseMoveDrawn(s, sx, sy) ==
  IF s.isPanning THEN << onMouseMove(s, sx, sy) >>
  ELSE IF s.dragVertex # NoId THEN << onMouseMove(s, sx, sy) >>
  ELSE IF s.mode = "edge" /\ s.edgePending # NoId
       THEN << onMouseMove(s, sx, sy) >>
       ELSE <<>>

onMouseDownDrawn(s, button, sx, sy) ==
  IF button = 0 /\ s.mode = "select"
  THEN << onMouseDown(s, button, sx, sy) >>
  ELSE <<>>

onMouseUpDrawn(s, button) == <<>>

onClickDrawn(s, sx, sy) ==
  IF s.dragVertex # NoId \/ s.isPanning THEN <<>>
  ELSE LET w == screenToWorld(s, sx, sy)
       IN  CASE s.mode = "vertex" -> addVertexDrawn(s, w[1], w[2])
             [] s.mode = "edge"   -> handleEdgeClickDrawn(s, w[1], w[2])
             [] s.mode = "select" -> << onClick(s, sx, sy) >>

\* the mouseleave listener with no call of draw()
onMouseLeaveNeverDraws(s) == <<>>

onMouseLeaveDrawn(s) ==
  IF s.mode = "edge" /\ s.edgePending # NoId
  THEN << onMouseLeave(s) >>
  ELSE <<>>

onWheelDrawn(s, up, sx, sy) == << onWheel(s, up, sx, sy) >>

resizeDrawn(s, w, h) == << resize(s, w, h) >>

\* the zoom levels of SpecDraw: 1 and one wheel step above it
DrawZoomLevels == {Q(1), ZOOM_FACTOR}

DrawProfile ==
  [clickPts |-> {<<20, 20>>, <<30, 30>>},
   downPts |-> {<<20, 20>>},
   movePts |-> {<<30, 30>>},
   wheelPts |-> {<<20, 20>>},
   buttons |-> {0},
   hover |-> TRUE,
   bootSizes |-> {<<100, 100>>},
   sizes |-> {<<100, 100>>},
   systems |-> {"cg"},
   userPts |-> {},
   maxVid |-> MaxVidDraw, maxEid |-> MaxEidDraw,
   zoomLevels |-> DrawZoomLevels, maxPan |-> 0, maxDen |-> 1]

NextDraw ==
  \/ Boot(DrawProfile)
  \/ Resize(DrawProfile)
  \/ MouseMove(DrawProfile)
  \/ MouseDown(DrawProfile)
  \/ MouseUp(DrawProfile)
  \/ Click(DrawProfile)
  \/ MouseLeave(DrawProfile)
  \/ Wheel(DrawProfile)
  \/ ResetView(DrawProfile)
  \/ SetCoordSystem(DrawProfile)
  \/ SetMode(DrawProfile)
  \/ ClearAll(DrawProfile)
  \/ ListDeleteVertex(DrawProfile)
  \/ ListDeleteEdge(DrawProfile)

SpecDraw == Init /\ [][NextDraw]_vars

\* the listener that took the state s to n and drew as the list drawn says
\* leaves the last frame current: it drew the state as it is at its end,
\* or it drew nothing and changed nothing draw() reads
FrameCurrent(s, n, drawn) ==
  IF drawn = <<>> THEN Visible(n) = Visible(s)
  ELSE Visible(drawn[1]) = Visible(n)

----------------------------------------------------------------------------
(* The step of the grid (draw.js), checked under SpecView.                 *)

GRID == 50

\* while (step * zoom < 25) step *= 5, with the number of rounds made
RECURSIVE gridStepUp(_, _, _)
gridStepUp(step, zoom, n) ==
  IF ~ Leq(Q(25), Mul(step, zoom))
  THEN gridStepUp(Mul(step, Q(5)), zoom, n + 1)
  ELSE <<step, n>>

\* while (step * zoom > 250) step /= 5, with the number of rounds made
RECURSIVE gridStepDown(_, _, _)
gridStepDown(step, zoom, n) ==
  IF ~ Leq(Mul(step, zoom), Q(250))
  THEN gridStepDown(Div(step, Q(5)), zoom, n + 1)
  ELSE <<step, n>>

\* the grid step with the steps of 25 instead of 5, each loop run once
gridStepCoarse(zoom) ==
  LET a == IF ~ Leq(Q(25), Mul(Q(GRID), zoom)) THEN Q(GRID * 25)
           ELSE Q(GRID)
      b == IF ~ Leq(Mul(a, zoom), Q(250)) THEN Div(a, Q(25)) ELSE a
  IN  [step |-> IF ~ Leq(Q(1), b) THEN Q(1) ELSE b, rounds |-> 2]

\* the step _drawGrid computes for the zoom (lines 42-46), and the number
\* of rounds its two loops make
gridStep(zoom) ==
  LET up == gridStepUp(Q(GRID), zoom, 0)
      down == gridStepDown(up[1], zoom, up[2])
  IN  [step |-> IF ~ Leq(Q(1), down[1]) THEN Q(1) ELSE down[1],
       rounds |-> down[2]]

\* zooms of [0.05, 30] the step is computed for besides the one of the
\* state: the two clamps, the zooms at which a step gives exactly 25 or 250
\* pixels, and zooms between them
GridZooms ==
  {ZOOM_MIN, Rat(1, 10), Rat(3, 10), Rat(1, 2), Q(1), Rat(5, 2), Q(3), Q(5),
   Q(7), Rat(25, 2), Q(20), Q(25), Q(26), ZOOM_MAX}

\* C26: for the zoom of every reachable state and for the zooms of
\* GridZooms, all in [0.05, 30], the loops of the grid step end after at
\* most two rounds, the step is 50 times or divided by a power of 5
\* (1250, 250, 50, 10 or 2), it is not below 1, and step * zoom is at least
\* 25 and at most 250.
C26_GridStep ==
  \A z \in GridZooms \cup {state.zoom} :
    /\ Leq(ZOOM_MIN, z) /\ Leq(z, ZOOM_MAX)
    /\ \A g \in {gridStep(z)} :
         /\ g.rounds <= 2
         /\ g.step \in {Mul(Q(GRID), Pow(Q(5), k)) : k \in -2..2}
         /\ Leq(Q(1), g.step)
         /\ Leq(Q(25), Mul(g.step, z))
         /\ Leq(Mul(g.step, z), Q(250))

\* C26: the zoom is one wheel step above its lower clamp; the step is 1250
\* after two rounds of the first loop, 2 at the upper clamp after two
\* rounds of the second and 50 at the zoom 1
C26_Witness ==
  /\ pc = "run"
  /\ state.zoom = Mul(ZOOM_MIN, ZOOM_FACTOR)
  /\ gridStep(state.zoom) = [step |-> Q(1250), rounds |-> 2]
  /\ gridStep(ZOOM_MAX) = [step |-> Q(2), rounds |-> 2]
  /\ gridStep(Q(1)) = [step |-> Q(50), rounds |-> 0]


----------------------------------------------------------------------------
(* The selection and the pending source of an edge, checked under Spec.    *)

\* edgePending and selVertex are null or the id of a vertex of the list, and
\* edgePending is set in the edge mode only
ReferencesLive(s) ==
  /\ s.edgePending \in VertexIds(s) \cup {NoId}
  /\ s.selVertex \in VertexIds(s) \cup {NoId}
  /\ s.edgePending # NoId => s.mode = "edge"

\* C27: in every reachable state edgePending and selVertex are each null or
\* the id of a vertex of the vertex list, and edgePending is not null only
\* while the mode is edge; setMode, deleteVertex and selectFromList of a
\* listed vertex, and a click handled in any mode, lead to such a state.
C27_ReferencesLive ==
  /\ ReferencesLive(state)
  /\ \A m \in Modes :
       \A n \in {setMode(state, m)} : ReferencesLive(n)
  /\ \A id \in VertexIds(state) :
       \A n \in {deleteVertex(state, id), selectFromList(state, id)} :
         ReferencesLive(n)
  /\ \A p \in GraphProfile.clickPts :
       \A n \in {clickAt(state, p)} : ReferencesLive(n)

\* C27: edge mode, the pending source and the selected vertex are two
\* different vertices; deleting the pending source clears edgePending and
\* keeps the selection, deleting the selected vertex does the converse
C27_Witness ==
  /\ state.mode = "edge"
  /\ state.edgePending # NoId
  /\ state.selVertex # NoId
  /\ state.selVertex # state.edgePending
  /\ \A n \in {deleteVertex(state, state.edgePending)} :
       /\ n.edgePending = NoId
       /\ n.selVertex = state.selVertex
       /\ state.edgePending \notin VertexIds(n)
  /\ \A n \in {deleteVertex(state, state.selVertex)} :
       /\ n.selVertex = NoId
       /\ n.edgePending = state.edgePending

----------------------------------------------------------------------------
(* The drag reference and the mode, checked under Spec.                    *)

\* C28: in every reachable state dragVertex is not null only while the mode
\* is select; so a move of the pointer in the vertex or the edge mode changes
\* the position of no vertex, and a click on the canvas in the vertex or the
\* edge mode is handled as it is without a drag reference.
C28_DragOnlyInSelectMode ==
  /\ state.dragVertex # NoId => state.mode = "select"
  /\ state.mode # "select" =>
       \A p \in GraphProfile.movePts :
         onMouseMove(state, Q(p[1]), Q(p[2])).vertices = state.vertices
  /\ state.mode # "select" =>
       \A p \in GraphProfile.clickPts :
         \A n \in {clickAt(state, p)} :
           /\ state.mode = "vertex" => Len(n.vertices) = Len(state.vertices) + 1
           /\ n = clickAt([state EXCEPT !.dragVertex = NoId], p)

----------------------------------------------------------------------------
(* The ids of the two lists, checked under Spec.                           *)

\* the ids of the vertices are below nextVid and increase along the list;
\* the ids of the edges are below nextEid and pairwise distinct
IdsOrdered(s) ==
  /\ \A i \in DOMAIN s.vertices :
       /\ s.vertices[i].id < s.nextVid
       /\ \A j \in DOMAIN s.vertices :
            /\ i # j => s.vertices[i].id # s.vertices[j].id
            /\ i < j => s.vertices[i].id < s.vertices[j].id
  /\ \A i \in DOMAIN s.edges :
       /\ s.edges[i].id < s.nextEid
       /\ \A j \in DOMAIN s.edges :
            i # j => s.edges[i].id # s.edges[j].id

\* C29: in every reachable state the vertices have pairwise distinct ids,
\* each below nextVid, the edges have pairwise distinct ids, each below
\* nextEid, and the vertex list is in increasing order of id; addVertex,
\* handleEdgeClick and clearAll lead to such a state.
C29_IdsDistinctAndOrdered ==
  /\ IdsOrdered(state)
  /\ \A n \in {clearAll(state)} : IdsOrdered(n)
  /\ \A p \in GraphProfile.clickPts :
       \A w \in {WorldOf(state, p)} :
         \A n \in {addVertex(state, w[1], w[2]),
                   handleEdgeClick(state, w[1], w[2])} :
           IdsOrdered(n)

\* C29: vertex 1 and edge 0 were deleted: the list holds the vertices 0 and
\* 2 and the edge 1, which joins them; a new vertex gets the id 3 at the end
\* of the list, and clearAll empties both lists with the counters at 0
C29_Witness ==
  /\ state.nextVid = 3
  /\ Len(state.vertices) = 2
  /\ state.vertices[1].id = 0
  /\ state.vertices[2].id = 2
  /\ state.nextEid = 2
  /\ Len(state.edges) = 1
  /\ state.edges[1].id = 1
  /\ \A n \in {addVertex(state, Q(0), Q(0))} :
       /\ Len(n.vertices) = 3
       /\ n.vertices[3].id = 3
       /\ n.nextVid = 4
  /\ {state.edges[1].v1, state.edges[1].v2} = {0, 2}
  /\ \A n \in {clearAll(state)} :
       /\ n.vertices = <<>> /\ n.edges = <<>>
       /\ n.nextVid = 0 /\ n.nextEid = 0
====
